---- MODULE Spec2Model ----
(***************************************************************************)
(* A model of hxform/hxform.py: the shape-polymorphic dispatch layer of    *)
(* transform, its frame-pair aliases, the time helpers tpad, to_doy and    *)
(* UTtoHMS, and MAGtoMLT.                                                  *)
(*                                                                         *)
(* Every public function is one action: from the idle state it draws its   *)
(* arguments from bounded sets, runs the whole function, and leaves the    *)
(* arguments in `call` and the outcome (a value or the exception raised)   *)
(* in `ret`; Return goes back to idle.  For transform, `call.after` holds   *)
(* the caller's v and time as the call left them.                          *)
(*                                                                         *)
(* Python values are modelled as follows.  A list, tuple or numpy array    *)
(* is a record [outer, elem, rows]: `outer` is type(x), `elem` is the type *)
(* of x[0] ("num" for a flat sequence of numbers), `rows` the rows of      *)
(* np.array(x) seen as a batch (a flat sequence is one row).  Angles are   *)
(* integers in degrees, so np.pi is 180.  Fractional hours are an integer  *)
(* count of ticks, SubSec ticks to the second.                             *)
(***************************************************************************)
EXTENDS Integers, Sequences, FiniteSets, TLC

VARIABLES call, ret

vars == <<call, ret>>

Idle == [op |-> "idle"]

NoRet == [status |-> "none"]

(***************************************************************************)
(* Bounds of the model.                                                    *)
(***************************************************************************)
\* most rows of a vector, position or time batch
MaxRows == 3
\* most fields of a time row given to transform (year .. beyond seconds)
MaxFields == 7
\* longest sequence given to tpad
MaxTpadLen == 5
\* largest length asked of tpad
MaxPadTo == 7
\* ticks to the second in the fractional hours given to UTtoHMS
SubSec == 4
\* seconds around every minute boundary swept at tick resolution
Window == 1

Min(a, b) == IF a < b THEN a ELSE b

Max(a, b) == IF a > b THEN a ELSE b

Zeros(n) == [i \in 1..n |-> 0]

ContainerKinds == {"list", "tuple", "ndarray"}

(***************************************************************************)
(* tpad(time, length): hxform.py lines 4-34.                               *)
(***************************************************************************)
\* assert(len(time) > 2)
TpadAccepts(time) == Len(time) > 2

\* lines 22-26 without the padding `time + pad*[0]`
TpadNoFill(time, length) ==
    IF Len(time) > length THEN SubSeq(time, 1, length) ELSE time

\* lines 22-26: truncate to time[0:length], or pad with length-len(time) zeros
TpadSeq(time, length) ==
    IF Len(time) > length
    THEN SubSeq(time, 1, length)
    ELSE time \o Zeros(length - Len(time))

\* lines 15, 29-34: the result has the container kind of the argument
TpadKind(in_type) ==
    IF in_type = "ndarray" THEN "ndarray"
    ELSE IF in_type = "tuple" THEN "tuple"
    ELSE "list"

Tpad(in_type, time, length) ==
    IF ~TpadAccepts(time)
    THEN [status |-> "AssertionError", raisedBy |-> "tpad"]
    ELSE [status |-> "ok", kind |-> TpadKind(in_type),
          value |-> TpadSeq(time, length)]

(***************************************************************************)
(* to_doy(t): hxform.py lines 37-46, with the calendar of                  *)
(* datetime(...).timetuple().tm_yday.                                      *)
(***************************************************************************)
IsLeap(y) == (y % 4 = 0 /\ y % 100 # 0) \/ y % 400 = 0

DaysInMonth(y, m) ==
    IF m = 2 THEN (IF IsLeap(y) THEN 29 ELSE 28)
    ELSE IF m \in {4, 6, 9, 11} THEN 30
    ELSE 31

RECURSIVE DaysBefore(_, _)
DaysBefore(y, m) ==
    IF m <= 1 THEN 0 ELSE DaysBefore(y, m - 1) + DaysInMonth(y, m - 1)

\* datetime(y, m, d, h, mi, s) raises ValueError outside these ranges
ValidDateTime(p) ==
    /\ p[1] \in 1..9999
    /\ p[2] \in 1..12
    /\ p[3] \in 1..DaysInMonth(p[1], p[2])
    /\ p[4] \in 0..23
    /\ p[5] \in 0..59
    /\ p[6] \in 0..59

DayOfYear(y, m, d) == DaysBefore(y, m) + d

\* [t[0], day_of_year, t[3], t[4], t[5]] of the row padded to 6 fields
ToDoy(t) ==
    LET p == TpadSeq(t, 6)
    IN  <<p[1], DayOfYear(p[1], p[2], p[3]), p[4], p[5], p[6]>>

ToDoyAccepts(t) == TpadAccepts(t) /\ ValidDateTime(TpadSeq(t, 6))

(***************************************************************************)
(* UTtoHMS(UT, keep24): hxform.py lines 344-375.  UT is q ticks, that is   *)
(* q / (3600 * SubSec) hours.                                              *)
(***************************************************************************)
TicksPerHour == 3600 * SubSec

\* Python 3 round(): to the nearest integer, a tie to the even one
RoundHalfEven(n, d) ==
    LET f == n \div d
        r == n % d
    IN  IF 2 * r < d THEN f
        ELSE IF 2 * r > d THEN f + 1
        ELSE IF f % 2 = 0 THEN f ELSE f + 1

\* lines 362-364: int(UT), int((UT-hours)*60.), int(round((...)*3600.))
RawHMS(q) ==
    LET hours == q \div TicksPerHour
        minutes == ((q - hours * TicksPerHour) * 60) \div TicksPerHour
        seconds == RoundHalfEven(q - hours * TicksPerHour - minutes * 60 * SubSec,
                                 SubSec)
    IN  <<hours, minutes, seconds>>

\* lines 365-370 without the carry of seconds
CarryNoSeconds(hms) ==
    IF hms[2] = 60 THEN <<hms[1] + 1, 0, hms[3]>> ELSE hms

\* lines 365-370: seconds == 60 carries into minutes, minutes == 60 into hours
Carry(hms) ==
    LET a == IF hms[3] = 60 THEN <<hms[1], hms[2] + 1, 0>> ELSE hms
    IN  IF a[2] = 60 THEN <<a[1] + 1, 0, a[3]>> ELSE a

UTtoHMS(q, keep24) ==
    IF q > 24 * TicksPerHour \/ q < 0
    THEN [status |-> "ValueError", raisedBy |-> "UTtoHMS"]
    ELSE LET hms == Carry(RawHMS(q))
         IN  IF hms[1] = 24 /\ keep24 = FALSE
             THEN [status |-> "ok", value |-> <<0, 0, 0>>]
             ELSE [status |-> "ok", value |-> hms]

(***************************************************************************)
(* CtoS and StoC: hxform.py lines 328-341.  The model keeps to vectors     *)
(* whose angles are multiples of 90 degrees (45 for atan2), where the      *)
(* trigonometric functions are exact.                                      *)
(***************************************************************************)
Abs(a) == IF a < 0 THEN 0 - a ELSE a

\* np.cos and np.sin of a multiple of 90 degrees
Cos90(a) == LET m == a % 360 IN IF m = 0 THEN 1 ELSE IF m = 180 THEN 0 - 1 ELSE 0

Sin90(a) == LET m == a % 360 IN IF m = 90 THEN 1 ELSE IF m = 270 THEN 0 - 1 ELSE 0

\* np.arctan2(y, x) in degrees, for x = 0, y = 0 or |x| = |y|: in (-180, 180]
Atan2Deg(y, x) ==
    IF y = 0 THEN (IF x < 0 THEN 180 ELSE 0)
    ELSE IF x = 0 THEN (IF y > 0 THEN 90 ELSE 0 - 90)
    ELSE IF x > 0 THEN (IF y > 0 THEN 45 ELSE 0 - 45)
    ELSE (IF y > 0 THEN 135 ELSE 0 - 135)

\* np.sqrt of a perfect square
Sqrt(n) == CHOOSE k \in 0..n : k * k = n

\* (180/pi)*np.acos(z/r) for z in {r, 0, -r}
AcosDeg(z, r) == IF z = r THEN 0 ELSE IF z = 0 THEN 90 ELSE 180

\* lines 328-334; z/r is nan when r = 0
CtoS(c) ==
    LET r == Sqrt(c[1] * c[1] + c[2] * c[2] + c[3] * c[3])
    IN  IF r = 0 THEN <<0, "nan", 0>>
        ELSE <<r, 90 - AcosDeg(c[3], r), Atan2Deg(c[2], c[1])>>

\* lines 336-341
StoC(s) ==
    <<s[1] * Cos90(s[3]) * Cos90(s[2]),
      s[1] * Sin90(s[3]) * Cos90(s[2]),
      s[1] * Cos90(90 - s[2])>>

(***************************************************************************)
(* transform: hxform.py lines 49-220.                                      *)
(***************************************************************************)
Frames == {"MAG", "GEI", "GEO", "GSE", "GSM", "SM"}

Libs == {"geopack_08_dp", "spacepy"}

\* len(np.array(x).shape) and np.array(x).shape[0] of a batch
NDim(x) == IF x.elem = "num" THEN 1 ELSE 2

NRows(x) == Len(x.rows)

\* x[0:n]
Slice(x, n) == SubSeq(x, 1, Min(n, Len(x)))

\* numpy.matlib.repmat(row, n, 1)
Repmat(row, n) == [i \in 1..n |-> row]

\* `if len(x.shape) == 1: x = np.array([x])`: the number of dimensions after
Wrap1(nd) == IF nd = 1 THEN 2 ELSE nd

Raise(status, by) == [status |-> status, raisedBy |-> by, called |-> FALSE]

\* lines 139-141
ShapeMismatch(v, t) == NDim(t) > 1 /\ NDim(v) > 1 /\ NRows(t) # NRows(v)

\* The native routine (geopack_08_dp.transform, or spacepy's convert): asked
\* for N rows it returns N rows or fails.  What it answers is its own
\* business: `be` is its answer, be.raises and the rows be.out.
Backend(N, dtime, trans, vin, be) ==
    IF be.raises THEN [status |-> "BackendError"]
    ELSE [status |-> "ok", rows |-> [i \in 1..N |-> be.out[i]]]

\* line 155: to_doy(tpad(t[i,0:5], length=5))
EpochRow(row) == ToDoy(TpadSeq(Slice(row, 5), 5))

\* lines 149-156: the encoded epochs handed to geopack
GeopackDtime(t) ==
    IF NDim(t) = 1 THEN <<ToDoy(t.rows[1])>>
    ELSE [i \in 1..NRows(t) |-> EpochRow(t.rows[i])]

\* the exception tpad or datetime raises on a row, if any
EpochError(t) ==
    IF \E i \in 1..NRows(t) : ~TpadAccepts(t.rows[i]) THEN "AssertionError"
    ELSE IF NDim(t) = 1 /\ ~ToDoyAccepts(t.rows[1]) THEN "ValueError"
    ELSE IF NDim(t) > 1 /\ \E i \in 1..NRows(t) :
                              ~ToDoyAccepts(TpadSeq(Slice(t.rows[i], 5), 5))
    THEN "ValueError"
    ELSE "none"

\* lines 159-162
Outsize(nv, nt) == IF nv <= nt THEN nt ELSE nv

\* lines 143-170
GeopackBranch(v, t, csys_in, csys_out, ctype_in, ctype_out, be) ==
    LET trans == csys_in \o "to" \o csys_out
        vnd == Wrap1(NDim(v))
        tnd == Wrap1(NDim(t))
    IN  IF EpochError(t) # "none" THEN Raise(EpochError(t), "to_doy")
        ELSE
        LET dtime == GeopackDtime(t)
            outsize == Outsize(NRows(v), NRows(t))
            vin == IF ctype_in = "sph"
                   THEN [i \in 1..NRows(v) |-> StoC(v.rows[i])]
                   ELSE v.rows
            req == [lib |-> "geopack_08_dp", trans |-> trans, dtime |-> dtime,
                    outsize |-> outsize, vin |-> vin]
            b == Backend(outsize, dtime, trans, vin, be)
        IN  IF b.status # "ok"
            THEN [status |-> "BackendError", raisedBy |-> "backend",
                  called |-> TRUE, request |-> req]
            ELSE [status |-> "ok", raisedBy |-> "none", called |-> TRUE,
                  request |-> req, vnd |-> vnd, tnd |-> tnd,
                  vp |-> IF ctype_out = "sph"
                         THEN [i \in 1..outsize |-> CtoS(b.rows[i])]
                         ELSE b.rows]

\* lines 172-206
SpacepyBranch(v, t, csys_in, csys_out, ctype_in, ctype_out, be) ==
    LET \* lines 185-186
        trep == NDim(t) = 1 /\ NDim(v) > 1
        trows == IF trep THEN Repmat(t.rows[1], NRows(v)) ELSE t.rows
        tnd == IF trep THEN 2 ELSE NDim(t)
        \* lines 187-190
        vrep == NDim(v) = 1 /\ tnd > 1
        vrows == IF vrep THEN Repmat(v.rows[1], Len(trows)) ELSE v.rows
        vnd == Wrap1(IF vrep THEN 2 ELSE NDim(v))
        \* lines 194-201: the fields of '%04d-%02d-%02dT%02d:%02d:%02d'
        t_str == [i \in 1..Len(trows) |-> TpadSeq(trows[i], 6)]
        req == [lib |-> "spacepy", trans |-> csys_in \o "to" \o csys_out,
                dtime |-> t_str, outsize |-> Len(vrows), vin |-> vrows,
                ctype_in |-> ctype_in, ctype_out |-> ctype_out]
        b == Backend(Len(vrows), t_str, req.trans, vrows, be)
    IN  IF \E i \in 1..Len(trows) : ~TpadAccepts(trows[i])
        THEN Raise("AssertionError", "tpad")
        ELSE IF b.status # "ok" \/ \E i \in 1..Len(trows) : ~ValidDateTime(t_str[i])
        THEN [status |-> "BackendError", raisedBy |-> "backend",
              called |-> TRUE, request |-> req]
        ELSE [status |-> "ok", raisedBy |-> "none", called |-> TRUE,
              request |-> req, vnd |-> vnd, tnd |-> tnd, vp |-> b.rows]

\* lines 208-209: the test reads v and t as the branch above left them
Unwraps(vnd, tnd) == tnd = 1 /\ vnd = 1

\* lines 211-220 with list_of_arrays never set
ReturnKindNoListOfArrays(in_type, list_of_arrays) ==
    IF in_type = "ndarray" THEN "ndarray" ELSE "list"

\* lines 211-220
ReturnKind(in_type, list_of_arrays) ==
    IF in_type = "ndarray" THEN "ndarray"
    ELSE IF list_of_arrays THEN "list_of_arrays"
    ELSE "list"

\* lines 208-220
Finish(v, t, r) ==
    IF r.status # "ok" THEN r
    ELSE
    LET in_type == v.outer
        list_of_arrays == v.elem = "ndarray" /\ v.outer = "list"
        one == Unwraps(r.vnd, r.tnd)
    IN  [status |-> "ok", raisedBy |-> "none", called |-> TRUE,
         request |-> r.request,
         kind |-> ReturnKind(in_type, list_of_arrays),
         ndim |-> IF one THEN 1 ELSE 2,
         rows |-> IF one THEN <<r.vp[1]>> ELSE r.vp]

Transform(v, t, csys_in, csys_out, ctype_in, ctype_out, lib, be) ==
    IF ShapeMismatch(v, t) THEN Raise("ValueError", "transform")
    ELSE IF lib = "geopack_08_dp"
    THEN Finish(v, t, GeopackBranch(v, t, csys_in, csys_out, ctype_in, ctype_out, be))
    ELSE IF lib = "spacepy"
    THEN Finish(v, t, SpacepyBranch(v, t, csys_in, csys_out, ctype_in, ctype_out, be))
    \* neither branch bound vp: line 208 or 211-220 reads it
    ELSE Raise("UnboundLocalError", "transform")

(***************************************************************************)
(* The caller's arguments across transform.  A name is bound to a buffer:  *)
(* "v" and "time" are the caller's objects, "local" an array made inside   *)
(* transform, "vp" the array the backend returns.  An in-place assignment  *)
(* writes the buffer its name is bound to.                                 *)
(***************************************************************************)
\* np.asarray(x), which hands an array back as it is
NpAsArray(x, buf) == IF x.outer = "ndarray" THEN buf ELSE "local"

\* lines 136-137: np.array(x) copies, whatever x is
NpArray(x, buf) == "local"

\* lines 147-150: np.array([x]) of a 1-D x is a new array
WrapBuf(x, buf) == IF NDim(x) = 1 THEN "local" ELSE buf

\* line 165 is reached, and writes v[:,0], v[:,1], v[:,2]
StoCWrites(v, t, ctype_in, lib) ==
    /\ ~ShapeMismatch(v, t)
    /\ lib = "geopack_08_dp"
    /\ EpochError(t) = "none"
    /\ ctype_in = "sph"

\* line 170 is reached, and writes vp[:,0], vp[:,1], vp[:,2]
CtoSWrites(r, ctype_out, lib) ==
    lib = "geopack_08_dp" /\ r.status = "ok" /\ ctype_out = "sph"

\* the caller's v and time as the call leaves them; r is the call's outcome
CallerAfter(v, t, ctype_in, ctype_out, lib, r) ==
    LET vbuf == WrapBuf(v, NpArray(v, "v"))
        tbuf == WrapBuf(t, NpArray(t, "time"))
        stoc == StoCWrites(v, t, ctype_in, lib)
        ctos == CtoSWrites(r, ctype_out, lib)
        written(x, buf) ==
            IF stoc /\ vbuf = buf
            THEN [x EXCEPT !.rows = [i \in 1..NRows(v) |-> StoC(v.rows[i])]]
            ELSE IF ctos /\ "vp" = buf
            THEN [x EXCEPT !.rows = r.rows]
            ELSE x
    IN  [v |-> written(v, "v"), time |-> written(t, "time"),
         vbuf |-> vbuf, tbuf |-> tbuf]

(***************************************************************************)
(* Inputs of transform.                                                    *)
(***************************************************************************)
VecSamples == << <<1, 90, 0>>, <<2, 0, 90>>, <<1, 0, 0>> >>

Cycle(samples, k) == samples[((k - 1) % Len(samples)) + 1]

\* single vectors and batches of 1..MaxRows vectors, in every container kind
VInputs ==
    {[outer |-> o, elem |-> "num", rows |-> <<Cycle(VecSamples, 1)>>] :
        o \in ContainerKinds}
    \cup
    {[outer |-> k[1], elem |-> k[2], rows |-> [i \in 1..n |-> Cycle(VecSamples, i)]] :
        k \in {<<"list", "list">>, <<"list", "ndarray">>, <<"tuple", "list">>,
               <<"ndarray", "ndarray">>},
        n \in 1..MaxRows}

\* [year, month, day, hours, minutes, seconds, beyond]
TimeSamples == << <<2000, 2, 1, 9, 9, 9, 5>>, <<2001, 12, 31, 23, 59, 30, 0>> >>

TimeRow(s, i, L) == [j \in 1..L |-> IF j <= 7 THEN Cycle(TimeSamples, s + i - 1)[j] ELSE 0]

\* single times and batches of 1..MaxRows times, of 3..MaxFields fields
TimeInputs ==
    {[outer |-> o, elem |-> "num", rows |-> <<TimeRow(s, 1, L)>>] :
        o \in ContainerKinds, s \in 1..Len(TimeSamples), L \in 3..MaxFields}
    \cup
    UNION {{[outer |-> k[1], elem |-> k[2], rows |-> [i \in 1..n |-> TimeRow(s, i, L)]] :
              k \in {<<"list", "list">>, <<"ndarray", "ndarray">>}, n \in 1..MaxRows} :
           s \in 1..Len(TimeSamples), L \in 3..MaxFields}

FrameInputs == {"GSM", "GSE", "XYZ"}

CTypes == {"car", "sph"}

LibInputs == Libs \cup {"other"}

\* answers of the native routine: axis vectors, where CtoS is exact
OutSamples == << <<0, 0, 1>>, <<0, 2, 0>>, <<0 - 1, 0, 0>> >>

BackendAnswers ==
    {[raises |-> f, out |-> [i \in 1..(MaxRows + 1) |-> Cycle(OutSamples, i)]] :
        f \in BOOLEAN}

(***************************************************************************)
(* The aliases of transform: hxform.py lines 223-325.  Each entry is a     *)
(* function the module defines, with the two frames its body passes on.    *)
(***************************************************************************)
Alias(name, csys_in, csys_out) ==
    [name |-> name, csys_in |-> csys_in, csys_out |-> csys_out]

Aliases ==
    {Alias("MAGtoGEI", "MAG", "GEI"), Alias("MAGtoGEO", "MAG", "GEO"),
     Alias("MAGtoGSE", "MAG", "GSE"), Alias("MAGtoGSM", "MAG", "GSM"),
     Alias("MAGtoSM", "MAG", "SM"),
     Alias("GEOtoMAG", "GEO", "MAG"), Alias("GEOtoGEI", "GEO", "GEI"),
     Alias("GEItoGEO", "GEI", "GEO"),
     Alias("GEOtoGSE", "GEO", "GSE"), Alias("GEOtoGSM", "GEO", "GSM"),
     Alias("GEOtoSM", "GEO", "SM"),
     Alias("GSEtoMAG", "GSE", "MAG"), Alias("GSEtoGEI", "GSE", "GEI"),
     Alias("GSEtoGEO", "GSE", "GEO"), Alias("GSEtoSM", "GSE", "SM"),
     Alias("GSMtoMAG", "GSM", "MAG"), Alias("GSMtoGEI", "GSM", "GEI"),
     Alias("GSMtoGEO", "GSM", "GEO"), Alias("GSMtoGSE", "GSM", "GSE"),
     Alias("GSMtoSM", "GSM", "SM"),
     Alias("SMtoMAG", "SM", "MAG"), Alias("SMtoGEI", "SM", "GEI"),
     Alias("SMtoGEO", "SM", "GEO"), Alias("SMtoGSE", "SM", "GSE"),
     Alias("SMtoGSM", "SM", "GSM")}

\* hx.<name>(v, time, ctype_in, ctype_out, lib): a name the module does not
\* define is an AttributeError of the module
CallByName(name, v, t, ctype_in, ctype_out, lib, be) ==
    IF \E a \in Aliases : a.name = name
    THEN LET a == CHOOSE a \in Aliases : a.name = name
         IN  Transform(v, t, a.csys_in, a.csys_out, ctype_in, ctype_out, lib, be)
    ELSE Raise("AttributeError", "module")

(***************************************************************************)
(* MAGtoMLT: hxform.py lines 378-452.  A numpy value is [nd, vals]: nd = 0 *)
(* for a scalar, 1 for a 1-D array; a position is [nd, data] with nd = 2   *)
(* for a batch of vectors.  Angles are in degrees.                         *)
(***************************************************************************)
Pi == 180

Scalar(x) == [nd |-> 0, vals |-> <<x>>]

Array1(xs) == [nd |-> 1, vals |-> xs]

\* lines 423-429
Phi(pos, csys) ==
    IF csys = "sph"
    THEN IF pos.nd = 0 THEN Scalar((pos.data * Pi) \div 180)
         ELSE Array1([i \in 1..Len(pos.data) |-> (pos.data[i] * Pi) \div 180])
    ELSE IF pos.nd = 1 /\ Len(pos.data) = 3
         THEN Scalar(Atan2Deg(pos.data[2], pos.data[1]))
         ELSE Array1([i \in 1..Len(pos.data) |->
                         Atan2Deg(pos.data[i][2], pos.data[i][1])])

\* lines 433-436
PhiCds(subsol_pt) ==
    IF subsol_pt.ndim = 1
    THEN Scalar(Atan2Deg(subsol_pt.rows[1][2], subsol_pt.rows[1][1]))
    ELSE Array1([i \in 1..Len(subsol_pt.rows) |->
                    Atan2Deg(subsol_pt.rows[i][2], subsol_pt.rows[i][1])])

\* numpy broadcasting of a - b for scalars and 1-D arrays
Broadcastable(a, b) ==
    a.nd = 0 \/ b.nd = 0 \/ Len(a.vals) = Len(b.vals)
        \/ Len(a.vals) = 1 \/ Len(b.vals) = 1

Minus(a, b) ==
    LET n == Max(Len(a.vals), Len(b.vals))
        at(x, i) == IF Len(x.vals) = 1 THEN x.vals[1] ELSE x.vals[i]
    IN  [nd |-> Max(a.nd, b.nd), vals |-> [i \in 1..n |-> at(a, i) - at(b, i)]]

\* lines 440-441
WrapFloat(delta) == IF delta.nd = 0 THEN Array1(delta.vals) ELSE delta

\* lines 443-446
WrapAngle(d) ==
    LET a == IF d > Pi THEN d - 2 * Pi ELSE d
    IN  IF a <= 0 - Pi THEN a + 2 * Pi ELSE a

\* lines 448-449 undoing only the wrapping of lines 440-441
SqueezeIfScalar(delta, was_scalar) ==
    IF was_scalar THEN Scalar(delta.vals[1]) ELSE delta

\* lines 448-449: `if delta.size == 1: delta = delta[0]`
Squeeze(delta, was_scalar) ==
    IF Len(delta.vals) = 1 THEN Scalar(delta.vals[1]) ELSE delta

\* line 451
Hours(d) == 12 + (d * 24) \div (2 * Pi)

\* line 418 and the first argument of line 431
AsArray(x) ==
    [outer |-> "ndarray", elem |-> IF x.elem = "num" THEN "num" ELSE "ndarray",
     rows |-> x.rows]

UnitX == [outer |-> "ndarray", elem |-> "num", rows |-> << <<1, 0, 0>> >>]

MAGtoMLT(pos, time, csys, lib, be) ==
    IF ~(csys = "car" \/ csys = "sph") THEN Raise("AssertionError", "MAGtoMLT")
    ELSE
    LET phi == Phi(pos, csys)
        subsol_pt == Transform(UnitX, AsArray(time), "GSM", "MAG", "car", "car",
                               lib, be)
    IN  IF subsol_pt.status # "ok" THEN subsol_pt
        ELSE
        LET phi_cds == PhiCds(subsol_pt)
        IN  IF ~Broadcastable(phi, phi_cds) THEN Raise("ValueError", "numpy")
            ELSE
            LET d0 == Minus(phi, phi_cds)
                d1 == WrapFloat(d0)
                d2 == Array1([i \in 1..Len(d1.vals) |-> WrapAngle(d1.vals[i])])
                d3 == Squeeze(d2, d0.nd = 0)
            IN  [status |-> "ok", raisedBy |-> "none", called |-> TRUE,
                 shape |-> IF d3.nd = 0 THEN "scalar" ELSE "array",
                 value |-> [i \in 1..Len(d3.vals) |-> Hours(d3.vals[i])],
                 phi |-> phi.vals, phi_cds |-> phi_cds.vals]

(***************************************************************************)
(* Inputs of MAGtoMLT.                                                     *)
(***************************************************************************)
\* magnetic longitudes -165, -150, .., 180 degrees
LonSamples == [k \in 1..24 |-> 15 * (k - 12)]

\* eight directions of the x-y plane, 45 degrees apart
DirSamples ==
    << <<1, 0, 0>>, <<1, 1, 0>>, <<0, 1, 0>>, <<0 - 1, 1, 0>>, <<0 - 1, 0, 0>>,
       <<0 - 1, 0 - 1, 0>>, <<0, 0 - 1, 0>>, <<1, 0 - 1, 0>> >>

SphPositions ==
    {[nd |-> 0, data |-> LonSamples[k]] : k \in 1..Len(LonSamples)}
    \cup
    {[nd |-> 1, data |-> [i \in 1..n |-> Cycle(LonSamples, k + i - 1)]] :
        k \in 1..Len(LonSamples), n \in 1..MaxRows}

CarPositions ==
    {[nd |-> 1, data |-> DirSamples[k]] : k \in 1..Len(DirSamples)}
    \cup
    {[nd |-> 2, data |-> [i \in 1..n |-> Cycle(DirSamples, k + i - 1)]] :
        k \in 1..Len(DirSamples), n \in 1..MaxRows}

MLTTimes ==
    {[outer |-> "list", elem |-> "num", rows |-> <<TimeRow(1, 1, 6)>>]}
    \cup
    {[outer |-> "list", elem |-> "list", rows |-> [i \in 1..n |-> TimeRow(1, i, 6)]] :
        n \in 1..MaxRows}

\* the subsolar point the native routine answers, epoch by epoch
SubsolarAnswers ==
    {[raises |-> f, out |-> [i \in 1..(MaxRows + 1) |-> Cycle(DirSamples, k + i - 1)]] :
        f \in BOOLEAN, k \in 1..Len(DirSamples)}

\* the arguments an alias is tried with
AliasVInputs == {x \in VInputs : x.outer = "list" /\ NRows(x) <= 2}

AliasTimes == {x \in MLTTimes : NRows(x) <= 2}

(***************************************************************************)
(* Inputs of the time helpers.                                             *)
(***************************************************************************)
TpadValues == {0, 1, 2000}

TpadInputs == UNION {[1..n -> TpadValues] : n \in 0..MaxTpadLen}

\* every tick within Window seconds of a minute boundary of the day, so also
\* a little below 0 and a little above 24 hours
UTInputs ==
    {m * 60 * SubSec + o : m \in 0..(24 * 60),
                           o \in (0 - Window * SubSec)..(Window * SubSec)}

(***************************************************************************)
(* Actions of the time helpers.                                            *)
(***************************************************************************)
Init == call = Idle /\ ret = NoRet

Return ==
    /\ call.op # "idle"
    /\ call' = Idle
    /\ ret' = NoRet

CallTpad ==
    /\ call.op = "idle"
    /\ \E in_type \in ContainerKinds, time \in TpadInputs, length \in 0..MaxPadTo :
          /\ call' = [op |-> "tpad", in_type |-> in_type, time |-> time,
                      length |-> length]
          /\ ret' = Tpad(in_type, time, length)

CallUTtoHMS ==
    /\ call.op = "idle"
    /\ \E q \in UTInputs, keep24 \in BOOLEAN :
          /\ call' = [op |-> "UTtoHMS", UT |-> q, keep24 |-> keep24]
          /\ ret' = UTtoHMS(q, keep24)

CallTransform ==
    /\ call.op = "idle"
    /\ \E v \in VInputs, time \in TimeInputs, csys_in \in FrameInputs,
          csys_out \in FrameInputs, ctype_in \in CTypes, ctype_out \in CTypes,
          lib \in LibInputs, be \in BackendAnswers :
          /\ call' = [op |-> "transform", v |-> v, time |-> time,
                      csys_in |-> csys_in, csys_out |-> csys_out,
                      ctype_in |-> ctype_in, ctype_out |-> ctype_out,
                      lib |-> lib,
                      after |-> CallerAfter(v, time, ctype_in, ctype_out, lib,
                                    Transform(v, time, csys_in, csys_out,
                                              ctype_in, ctype_out, lib, be))]
          /\ ret' = Transform(v, time, csys_in, csys_out, ctype_in, ctype_out,
                              lib, be)

NextTransform == CallTransform \/ Return

SpecTransform == Init /\ [][NextTransform]_vars

CallAlias ==
    /\ call.op = "idle"
    /\ \E f1 \in Frames, f2 \in Frames, v \in AliasVInputs, time \in AliasTimes,
          ctype_in \in CTypes, ctype_out \in CTypes, lib \in Libs,
          be \in BackendAnswers :
          /\ f1 # f2
          /\ call' = [op |-> "alias", f1 |-> f1, f2 |-> f2, v |-> v,
                      time |-> time, ctype_in |-> ctype_in,
                      ctype_out |-> ctype_out, lib |-> lib, be |-> be]
          /\ ret' = CallByName(f1 \o "to" \o f2, v, time, ctype_in, ctype_out,
                               lib, be)

NextAlias == CallAlias \/ Return

SpecAlias == Init /\ [][NextAlias]_vars

CallMAGtoMLT ==
    /\ call.op = "idle"
    /\ \E csys \in CTypes \cup {"xyz"}, time \in MLTTimes, lib \in Libs,
          be \in SubsolarAnswers :
          \E pos \in (IF csys = "car" THEN CarPositions ELSE SphPositions) :
              /\ call' = [op |-> "MAGtoMLT", pos |-> pos, time |-> time,
                          csys |-> csys, lib |-> lib]
              /\ ret' = MAGtoMLT(pos, time, csys, lib, be)

NextMLT == CallMAGtoMLT \/ Return

SpecMLT == Init /\ [][NextMLT]_vars

Next ==
    \/ CallTransform
    \/ CallAlias
    \/ CallMAGtoMLT
    \/ CallTpad
    \/ CallUTtoHMS
    \/ Return

Spec == Init /\ [][Next]_vars

NextTpad == CallTpad \/ Return

SpecTpad == Init /\ [][NextTpad]_vars

NextHMS == CallUTtoHMS \/ Return

SpecHMS == Init /\ [][NextHMS]_vars

(***************************************************************************)
(* C10.  tpad: for an input of n >= 3 elements and a requested length L    *)
(* the result has exactly L elements, its first min(n, L) elements are     *)
(* those of the input in order and the others are 0; an input of fewer     *)
(* than 3 elements fails (the assertion) and returns nothing.              *)
(***************************************************************************)
C10_PadOrTruncate ==
    call.op = "tpad" =>
        LET n == Len(call.time)
            L == call.length
        IN  IF n >= 3
            THEN /\ ret.status = "ok"
                 /\ Len(ret.value) = L
                 /\ \A i \in 1..L :
                       ret.value[i] = IF i <= Min(n, L) THEN call.time[i] ELSE 0
            ELSE /\ ret.status = "AssertionError"
                 /\ DOMAIN ret = {"status", "raisedBy"}

\* both a padded and a truncated result, and a rejected short input, occur
C10_Witness ==
    /\ call.op = "tpad"
    /\ Len(call.time) = 4
    /\ call.length = 6
    /\ ret.status = "ok"
    /\ ret.value = call.time \o <<0, 0>>
    /\ call.time[4] # 0

(***************************************************************************)
(* C9.  UTtoHMS: for UT in [0, 24] the result is carry-normalised          *)
(* (0 <= minute, second <= 59), hour*3600 + minute*60 + second is UT       *)
(* rounded to a nearest second, except that a value rounding to 24 hours   *)
(* is (0,0,0) without keep24 and (24,0,0) with it; hour 24 is returned     *)
(* only then; outside [0, 24] the call fails.                              *)
(***************************************************************************)
C9_HoursToHMS ==
    call.op = "UTtoHMS" =>
        IF call.UT < 0 \/ call.UT > 24 * TicksPerHour
        THEN ret.status = "ValueError"
        ELSE /\ ret.status = "ok"
             /\ LET h == ret.value[1]
                    m == ret.value[2]
                    s == ret.value[3]
                    total == h * 3600 + m * 60 + s
                    \* |UT - nearest| <= half a second
                    nearest(x) == 2 * (x * SubSec - call.UT) <= SubSec
                                  /\ 2 * (call.UT - x * SubSec) <= SubSec
                IN  /\ m \in 0..59
                    /\ s \in 0..59
                    /\ h \in 0..24
                    /\ \/ total # 24 * 3600 /\ nearest(total)
                       \/ /\ nearest(24 * 3600)
                          /\ ret.value = IF call.keep24 THEN <<24, 0, 0>>
                                         ELSE <<0, 0, 0>>
                    /\ h = 24 => call.keep24 /\ m = 0 /\ s = 0

\* 23:59:59.75 carries through seconds and minutes into hour 24
C9_Witness ==
    /\ call.op = "UTtoHMS"
    /\ call.UT = 24 * TicksPerHour - 1
    /\ call.keep24
    /\ ret.status = "ok"
    /\ ret.value = <<24, 0, 0>>

(***************************************************************************)
(* C1.  Batch-size resolution in transform: with Nv vector rows and Nt     *)
(* time rows, in any accepted shape, the call fails with the shape error   *)
(* if and only if Nv > 1 and Nt > 1 and Nv # Nt; otherwise the backend is  *)
(* asked for, and the caller receives, max(Nv, Nt) rows.                   *)
(***************************************************************************)
C1_BatchSizeResolution ==
    call.op = "transform" /\ call.lib \in Libs =>
        LET Nv == NRows(call.v)
            Nt == NRows(call.time)
        IN  /\ (ret.status = "ValueError" /\ ret.raisedBy = "transform")
                   <=> (Nv > 1 /\ Nt > 1 /\ Nv # Nt)
            /\ ret.called => ret.request.outsize = Max(Nv, Nt)
            /\ ret.status = "ok" => Len(ret.rows) = Max(Nv, Nt)

(***************************************************************************)
(* C2.  Output unwrapping in transform: when v and time were both single   *)
(* un-batched entries the result is the single output row itself (1-D);    *)
(* when either was a batch it is the full 2-D batch; for both backends.    *)
(***************************************************************************)
C2_OutputUnwrapping ==
    call.op = "transform" /\ ret.status = "ok" =>
        IF NDim(call.v) = 1 /\ NDim(call.time) = 1
        THEN ret.ndim = 1 /\ Len(ret.rows) = 1
        ELSE ret.ndim = 2

(***************************************************************************)
(* C3.  Epoch encoding in transform (default backend): encoded epoch row i *)
(* handed to the backend is (year, day of year, hour, minute, second) of   *)
(* time row i, absent fields 0 and present fields up to seconds kept; a    *)
(* single time and a batch of that time are encoded alike.                 *)
(***************************************************************************)
C3_EpochEncoding ==
    call.op = "transform" /\ call.lib = "geopack_08_dp" /\ ret.called =>
        LET t == call.time
            field(row, j) == IF j <= Len(row) THEN row[j] ELSE 0
        IN  /\ Len(ret.request.dtime) = NRows(t)
            /\ \A i \in 1..NRows(t) :
                  ret.request.dtime[i] =
                      <<t.rows[i][1],
                        DayOfYear(t.rows[i][1], t.rows[i][2], t.rows[i][3]),
                        field(t.rows[i], 4), field(t.rows[i], 5),
                        field(t.rows[i], 6)>>

(***************************************************************************)
(* C6.  The container kind of transform's result is decided by v alone:    *)
(* an array for an array, a list of arrays for a list whose first element  *)
(* is an array, otherwise a plain list; whatever the container of time.    *)
(***************************************************************************)
C6_ContainerKind ==
    call.op = "transform" /\ ret.status = "ok" =>
        ret.kind = IF call.v.outer = "ndarray" THEN "ndarray"
                   ELSE IF call.v.outer = "list" /\ call.v.elem = "ndarray"
                   THEN "list_of_arrays"
                   ELSE "list"

\* a list of arrays at a tuple time comes back as a list of arrays
C6_Witness ==
    /\ call.op = "transform"
    /\ call.v.outer = "list" /\ call.v.elem = "ndarray" /\ NRows(call.v) = 2
    /\ call.time.outer = "tuple"
    /\ ret.status = "ok"
    /\ ret.kind = "list_of_arrays"

(***************************************************************************)
(* C8.  Unknown enum values in transform: a frame outside the six, or a    *)
(* backend name that is neither of the two, makes transform itself raise   *)
(* an error, and no result reaches the caller.                             *)
(***************************************************************************)
C8_RejectsUnknown ==
    call.op = "transform" =>
        /\ (call.csys_in \notin Frames \/ call.csys_out \notin Frames) =>
               ret.status # "ok" /\ ret.raisedBy = "transform" /\ ~ret.called
        /\ call.lib \notin Libs =>
               ret.status # "ok" /\ ret.raisedBy = "transform" /\ ~ret.called

(***************************************************************************)
(* C7.  Aliases: for every ordered pair (F1, F2) of distinct frames there  *)
(* is an alias F1toF2, and calling it is the call                          *)
(* transform(v, time, F1, F2, ctype_in, ctype_out, lib).                   *)
(***************************************************************************)
C7_AliasForwarding ==
    call.op = "alias" =>
        ret = Transform(call.v, call.time, call.f1, call.f2, call.ctype_in,
                        call.ctype_out, call.lib, call.be)

(***************************************************************************)
(* C4.  Range of magnetic local time: with the magnetic longitude and the  *)
(* subsolar magnetic longitude each in (-pi, pi], every value MAGtoMLT     *)
(* returns lies in [0, 24).                                                *)
(***************************************************************************)
C4_MLTRange ==
    call.op = "MAGtoMLT" /\ ret.status = "ok"
        /\ (\A i \in 1..Len(ret.phi) : ret.phi[i] > 0 - Pi /\ ret.phi[i] <= Pi)
        /\ (\A i \in 1..Len(ret.phi_cds) :
                ret.phi_cds[i] > 0 - Pi /\ ret.phi_cds[i] <= Pi)
    => \A i \in 1..Len(ret.value) : ret.value[i] >= 0 /\ ret.value[i] < 24

\* the number of positions a call was given
NPositions(pos, csys) ==
    IF pos.nd = 0 \/ (csys = "car" /\ pos.nd = 1) THEN 1 ELSE Len(pos.data)

SinglePosition(pos, csys) == pos.nd = 0 \/ (csys = "car" /\ pos.nd = 1)

(***************************************************************************)
(* C5 as stated.  MAGtoMLT returns a scalar when the position was a single *)
(* position, otherwise a batch as long as the batch of positions, for      *)
(* every combination of single or batched position and time.               *)
(***************************************************************************)
C5_ShapeFollowsPosition ==
    call.op = "MAGtoMLT" /\ ret.status = "ok" =>
        IF SinglePosition(call.pos, call.csys)
        THEN ret.shape = "scalar"
        ELSE ret.shape = "array"
             /\ Len(ret.value) = NPositions(call.pos, call.csys)

(***************************************************************************)
(* C5 as amended.  With Np positions and Nt times, MAGtoMLT returns a      *)
(* scalar exactly when max(Np, Nt) = 1, however the one position and the   *)
(* one time were given, and otherwise a batch of max(Np, Nt) values; the   *)
(* call fails when Np > 1, Nt > 1 and Np # Nt.                             *)
(***************************************************************************)
C5_ShapeFollowsBroadcast ==
    call.op = "MAGtoMLT" /\ call.csys \in CTypes =>
        LET Np == NPositions(call.pos, call.csys)
            Nt == NRows(call.time)
        IN  /\ ret.status = "ok" =>
                  /\ ret.shape = "scalar" <=> Max(Np, Nt) = 1
                  /\ Len(ret.value) = Max(Np, Nt)
            /\ (Np > 1 /\ Nt > 1 /\ Np # Nt) => ret.status # "ok"

\* a batch of one position at one time comes back as a scalar
C5_Witness ==
    /\ call.op = "MAGtoMLT"
    /\ ~SinglePosition(call.pos, call.csys)
    /\ NPositions(call.pos, call.csys) = 1
    /\ ret.status = "ok"
    /\ ret.shape = "scalar"

(***************************************************************************)
(* C11.  transform leaves its caller's arguments unchanged: after any      *)
(* call, successful or failing, with any backend and any ctype_in and      *)
(* ctype_out, v and time hold the values they held before; the in-place    *)
(* rewrites of lines 165 and 170 reach internal arrays only.               *)
(***************************************************************************)
C11_ArgumentsUnchanged ==
    call.op = "transform" =>
        /\ call.after.v = call.v
        /\ call.after.time = call.time
        /\ call.after.vbuf # "v"
        /\ call.after.tbuf # "time"

\* a 2-D array given as spherical: line 165 rewrote the array handed to the
\* backend, and the caller's array still holds what it held
C11_Witness ==
    /\ call.op = "transform"
    /\ call.v.outer = "ndarray" /\ NDim(call.v) = 2
    /\ call.ctype_in = "sph" /\ call.ctype_out = "sph"
    /\ call.lib = "geopack_08_dp"
    /\ ret.status = "ok"
    /\ ret.request.vin # call.v.rows
    /\ call.after.v = call.v

====
